---- MODULE Spec2Model ----
(***************************************************************************)
(* Excel-dashboard: the spreadsheet ingestion and chart derivation         *)
(* pipeline of the server (routes/upload.js, routes/analysis.js), and the  *)
(* request handlers of those routes and of the admin route over the        *)
(* record store; the two clients' session state (the Redux authSlice and   *)
(* the context AppProvider) over localStorage.                             *)
(*                                                                         *)
(* JavaScript values are records [t, n, s]: t is the value's kind, n the   *)
(* numeric value of a number, s the text of a string as a sequence of      *)
(* one-character strings.  Numbers are integers; the input texts contain   *)
(* no decimal point or exponent, so every parsed number is an integer.     *)
(***************************************************************************)
EXTENDS Integers, Sequences, FiniteSets, TLC

VARIABLES
    values,        \* analyzeColumnType: the argument
    columnType,    \* analyzeColumnType: the returned type, "pending" before the call
    jsonData,      \* processExcelFile: sheet_to_json's array of rows
    processed,     \* processExcelFile: what the call returned or threw
    data,          \* processChartData: the rows argument
    xAxis,         \* processChartData: {column, label}
    yAxis,         \* processChartData: {column, label}
    chartType,     \* processChartData: the chart type argument
    chart,         \* processChartData: what the call returned or threw
    chartAgain,    \* processChartData: what a second call on the same arguments returned
    statsData,     \* calculateStatistics: the argument
    statistics,    \* calculateStatistics: what the call returned
    users,         \* server store: the User records, by user id
    uploads,       \* server store: the Upload records
    analyses,      \* server store: the Analysis records
    nextId,        \* server store: the _id the next new record gets
    request,       \* the request handled last
    response,      \* the answer it got
    authState,     \* Redux client: the state of authSlice
    context,       \* context client: the state AppProvider holds
    localStorage   \* the browser's localStorage, by key

inferVars  == <<values, columnType>>
ingestVars == <<jsonData, processed>>
chartVars  == <<data, xAxis, yAxis, chartType, chart, chartAgain>>
statsVars  == <<statsData, statistics>>
serverVars == <<users, uploads, analyses, nextId, request, response>>
clientVars == <<authState, context, localStorage>>
vars == <<values, columnType, jsonData, processed, data, xAxis, yAxis,
          chartType, chart, chartAgain, statsData, statistics,
          users, uploads, analyses, nextId, request, response,
          authState, context, localStorage>>

----------------------------------------------------------------------------
(* Bounds of the model *)

\* longest repeated pattern an input sequence is built from
MaxBase == 2
\* longest argument of analyzeColumnType
MaxValues == 12
\* most data rows of a sheet
MaxDataRows == 7
\* most header cells of a sheet
MaxHeaders == 2
\* most rows handed to processChartData
MaxRows == 52
\* row counts up to this one, and those from just under the series cap on, are tried
MaxShortRows == 4
\* longest argument of calculateStatistics
MaxStats == 4
\* lengths of the two runs of a long argument of the statistics calculator
MaxHeadRun == 3
MaxTailRun == 37
\* most records the server store is given
MaxRecords == 2

----------------------------------------------------------------------------
(* JavaScript values *)

Num(k) == [t |-> "number", n |-> k, s |-> <<>>]
Str(cs) == [t |-> "string", n |-> 0, s |-> cs]
Null == [t |-> "null", n |-> 0, s |-> <<>>]
Undef == [t |-> "undefined", n |-> 0, s |-> <<>>]
NaNv == [t |-> "nan", n |-> 0, s |-> <<>>]
\* a built-in function object, s its source text
Fn(cs) == [t |-> "function", n |-> 0, s |-> cs]

\* typeof v === 'number'
TypeofNumber(v) == v.t \in {"number", "nan"}
\* isNaN(v) for v a number
IsNaNv(v) == v.t = "nan"

Digits == <<"0", "1", "2", "3", "4", "5", "6", "7", "8", "9">>
IsDigit(c) == \E d \in 1..10 : Digits[d] = c
DigitVal(c) == (CHOOSE d \in 1..10 : Digits[d] = c) - 1

Min(a, b) == IF a < b THEN a ELSE b

\* Array.prototype.slice(from, to), 0-based, to exclusive
Slice(arr, from, to) ==
    LET hi == Min(to, Len(arr))
    IN  IF hi <= from THEN <<>> ELSE [i \in 1..(hi - from) |-> arr[from + i]]

\* the first n entries of base repeated cyclically
Cycle(base, n) == [i \in 1..n |-> base[((i - 1) % Len(base)) + 1]]

\* all sequences over S of length lo..hi
SeqsOf(S, lo, hi) == UNION {[1..k -> S] : k \in lo..hi}

RECURSIVE NatToChars(_)
NatToChars(k) ==
    IF k < 10 THEN <<Digits[k + 1]>>
    ELSE NatToChars(k \div 10) \o <<Digits[(k % 10) + 1]>>

\* String(v): the text form of a value
ToStringJS(v) ==
    CASE v.t = "number" -> IF v.n < 0 THEN <<"-">> \o NatToChars(-v.n) ELSE NatToChars(v.n)
      [] v.t = "string" -> v.s
      [] v.t = "function" -> v.s
      [] v.t = "null" -> <<"n", "u", "l", "l">>
      [] v.t = "undefined" -> <<"u", "n", "d", "e", "f", "i", "n", "e", "d">>
      [] v.t = "nan" -> <<"N", "a", "N">>

RECURSIVE SkipWhite(_)
SkipWhite(cs) == IF cs # <<>> /\ Head(cs) = " " THEN SkipWhite(Tail(cs)) ELSE cs

RECURSIVE DigitRun(_)
\* the longest prefix of digits
DigitRun(cs) ==
    IF cs # <<>> /\ IsDigit(Head(cs)) THEN <<Head(cs)>> \o DigitRun(Tail(cs)) ELSE <<>>

RECURSIVE DigitsValue(_, _)
DigitsValue(ds, acc) ==
    IF ds = <<>> THEN acc ELSE DigitsValue(Tail(ds), 10 * acc + DigitVal(Head(ds)))

\* parseFloat(v): the longest numeric prefix of String(v) after leading blanks,
\* NaN when there is none
ParseFloat(v) ==
    LET body == SkipWhite(ToStringJS(v))
        neg == body # <<>> /\ Head(body) = "-"
        signed == body # <<>> /\ Head(body) \in {"-", "+"}
        run == DigitRun(IF signed THEN Tail(body) ELSE body)
    IN  IF run = <<>> THEN NaNv
        ELSE Num(IF neg THEN -DigitsValue(run, 0) ELSE DigitsValue(run, 0))

----------------------------------------------------------------------------
(* Column Type Inferencer: analyzeColumnType *)

\* ten characters from offset i (1-based) shaped \d{4}-\d{2}-\d{2}
IsoAt(cs, i) ==
    /\ i + 9 <= Len(cs)
    /\ \A k \in {0, 1, 2, 3, 5, 6, 8, 9} : IsDigit(cs[i + k])
    /\ cs[i + 4] = "-" /\ cs[i + 7] = "-"

\* ten characters from offset i shaped \d{2}\/\d{2}\/\d{4}
SlashAt(cs, i) ==
    /\ i + 9 <= Len(cs)
    /\ \A k \in {0, 1, 3, 4, 6, 7, 8, 9} : IsDigit(cs[i + k])
    /\ cs[i + 2] = "/" /\ cs[i + 5] = "/"

\* value.match(/\d{4}-\d{2}-\d{2}|\d{2}\/\d{2}\/\d{4}/): an unanchored search
MatchesDatePattern(cs) == \E i \in 1..Len(cs) : IsoAt(cs, i) \/ SlashAt(cs, i)

TwoDigits(cs, i) == 10 * DigitVal(cs[i]) + DigitVal(cs[i + 1])

\* !isNaN(new Date(value).getTime()) for a text that is exactly one date shape:
\* YYYY-MM-DD is read as year-month-day, NN/NN/YYYY as month/day/year.  For any
\* other text the pattern test of the same condition is false.
DateIsValid(cs) ==
    /\ Len(cs) = 10
    /\ \/ IsoAt(cs, 1) /\ TwoDigits(cs, 6) \in 1..12 /\ TwoDigits(cs, 9) \in 1..31
       \/ SlashAt(cs, 1) /\ TwoDigits(cs, 1) \in 1..12 /\ TwoDigits(cs, 4) \in 1..31

\* one pass of the loop body: which counter the value increments
Evidence(value) ==
    IF value.t \in {"null", "undefined"} \/ value = Str(<<>>) THEN "none"
    ELSE IF TypeofNumber(value) /\ ~IsNaNv(value) THEN "number"
    ELSE IF value.t = "string"
         THEN IF DateIsValid(value.s) /\ MatchesDatePattern(value.s) THEN "date"
              ELSE IF ~IsNaNv(ParseFloat(value)) THEN "number"
              ELSE "none"
    ELSE "none"

RECURSIVE CountEvidence(_, _)
\* the counter for `kind` after the loop over vals
CountEvidence(vals, kind) ==
    IF vals = <<>> THEN 0
    ELSE (IF Evidence(Head(vals)) = kind THEN 1 ELSE 0) + CountEvidence(Tail(vals), kind)

\* the first entries of the argument the loop runs over
SampleSize == 10

\* variant: a tie goes to number
DecideNumberOnTie(numberCount, dateCount) ==
    IF numberCount >= dateCount /\ numberCount > 0 THEN "number"
    ELSE IF dateCount > 0 THEN "date"
    ELSE "string"

\* the three returns after the loop
Decide(numberCount, dateCount) ==
    IF numberCount > dateCount /\ numberCount > 0 THEN "number"
    ELSE IF dateCount > 0 THEN "date"
    ELSE "string"

\* variant: the loop runs over the whole argument
analyzeColumnTypeWholeColumn(vals) ==
    IF Len(vals) = 0 THEN "string"
    ELSE Decide(CountEvidence(vals, "number"), CountEvidence(vals, "date"))

\* the two counters of the loop
Counters(numberCount, dateCount) == [numberCount |-> numberCount, dateCount |-> dateCount]

\* variant: the date test and the parseFloat test are two separate ifs
CountValueInBothTests(counts, value) ==
    IF value.t \in {"null", "undefined"} \/ value = Str(<<>>) THEN counts
    ELSE IF TypeofNumber(value) /\ ~IsNaNv(value)
         THEN Counters(counts.numberCount + 1, counts.dateCount)
    ELSE IF value.t = "string"
         THEN Counters(counts.numberCount + (IF ~IsNaNv(ParseFloat(value)) THEN 1 ELSE 0),
                       counts.dateCount
                         + (IF DateIsValid(value.s) /\ MatchesDatePattern(value.s)
                            THEN 1 ELSE 0))
    ELSE counts

\* the body of the loop for one value: the counters after it
CountValue(counts, value) ==
    IF value.t \in {"null", "undefined"} \/ value = Str(<<>>) THEN counts
    ELSE IF TypeofNumber(value) /\ ~IsNaNv(value)
         THEN Counters(counts.numberCount + 1, counts.dateCount)
    ELSE IF value.t = "string"
         THEN IF DateIsValid(value.s) /\ MatchesDatePattern(value.s)
              THEN Counters(counts.numberCount, counts.dateCount + 1)
              ELSE IF ~IsNaNv(ParseFloat(value))
                   THEN Counters(counts.numberCount + 1, counts.dateCount)
                   ELSE counts
    ELSE counts

RECURSIVE LoopCounts(_, _)
\* the counters after the loop over vals, entered with counts
LoopCounts(counts, vals) ==
    IF vals = <<>> THEN counts
    ELSE LoopCounts(CountValue(counts, Head(vals)), Tail(vals))

analyzeColumnType(vals) ==
    IF Len(vals) = 0 THEN "string"
    ELSE LET counts == LoopCounts(Counters(0, 0), Slice(vals, 0, SampleSize))
         IN  Decide(counts.numberCount, counts.dateCount)

\* cell values the inferencer is tried on
InferCells ==
    { Num(3), NaNv, Null, Str(<<>>),
      Str(<<"2", "0", "2", "3", "-", "0", "1", "-", "0", "1">>),
      Str(<<"0", "1", "/", "0", "2", "/", "2", "0", "2", "3">>),
      Str(<<"2", "0", "2", "3", "-", "1", "3", "-", "4", "5">>),
      Str(<<"1", "2", "a">>), Str(<<"a", "b">>) }

InferInputs ==
    {<<>>} \cup { Cycle(base, n) : base \in SeqsOf(InferCells, 1, MaxBase), n \in 1..MaxValues }

AnalyzeColumnType ==
    /\ columnType = "pending"
    /\ columnType' = analyzeColumnType(values)
    /\ UNCHANGED <<values, ingestVars, chartVars, statsVars, serverVars, clientVars>>

----------------------------------------------------------------------------
(* JavaScript objects used as maps: the own properties in insertion order, *)
(* each [key, val] with key the property name as text.  A read that finds  *)
(* no own property falls back to Object.prototype.                         *)

EmptyObject == <<>>

OwnKeys(obj) == {obj[i].key : i \in 1..Len(obj)}
HasOwn(obj, k) == k \in OwnKeys(obj)
OwnValue(obj, k) == obj[CHOOSE i \in 1..Len(obj) : obj[i].key = k].val

\* names of methods every plain object inherits
ObjectPrototypeMethods ==
    { <<"c", "o", "n", "s", "t", "r", "u", "c", "t", "o", "r">>,
      <<"t", "o", "S", "t", "r", "i", "n", "g">>,
      <<"v", "a", "l", "u", "e", "O", "f">> }

\* String(f) of an inherited method
MethodSource(k) ==
    <<"function ">>
      \o (IF k = <<"c", "o", "n", "s", "t", "r", "u", "c", "t", "o", "r">>
          THEN <<"O", "b", "j", "e", "c", "t">> ELSE k)
      \o <<"() { [native code] }">>

\* obj[k]
ObjGet(obj, k) ==
    IF HasOwn(obj, k) THEN OwnValue(obj, k)
    ELSE IF k \in ObjectPrototypeMethods THEN Fn(MethodSource(k))
    ELSE Undef

\* obj[k] = v: an own property keeps its place, a new one goes last
ObjSet(obj, k, v) ==
    IF HasOwn(obj, k)
    THEN [i \in 1..Len(obj) |-> IF obj[i].key = k THEN [key |-> k, val |-> v] ELSE obj[i]]
    ELSE Append(obj, [key |-> k, val |-> v])

\* a canonical array index: "0", or digits without a leading zero
IsArrayIndex(k) ==
    /\ k # <<>>
    /\ \A i \in 1..Len(k) : IsDigit(k[i])
    /\ (Len(k) > 1 => k[1] # "0")

RECURSIVE SortIndexKeys(_)
\* the array-index keys in ascending numeric order
SortIndexKeys(ks) ==
    IF ks = {} THEN <<>>
    ELSE LET least == CHOOSE k \in ks : \A o \in ks : DigitsValue(k, 0) <= DigitsValue(o, 0)
         IN  <<least>> \o SortIndexKeys(ks \ {least})

\* the order in which an object's own properties are enumerated: array-index
\* keys ascending, then the others as inserted
OwnPropertyKeys(obj) ==
    LET entryKeys == [i \in 1..Len(obj) |-> obj[i].key]
    IN  SortIndexKeys({k \in OwnKeys(obj) : IsArrayIndex(k)})
          \o SelectSeq(entryKeys, LAMBDA k : ~IsArrayIndex(k))

ObjectKeys(obj) == OwnPropertyKeys(obj)
ObjectValues(obj) ==
    LET ks == OwnPropertyKeys(obj) IN [i \in 1..Len(ks) |-> OwnValue(obj, ks[i])]

----------------------------------------------------------------------------
(* Tabular Ingestor: processExcelFile, from the parsed first sheet on *)

\* an entry of jsonData: an array of cells, or undefined
SheetRow(cells) == [defined |-> TRUE, cells |-> cells]
NoRow == [defined |-> FALSE, cells |-> <<>>]

\* row[index], undefined past the end of the array
CellAt(cells, index) == IF index < Len(cells) THEN cells[index + 1] ELSE Undef

RECURSIVE ZipHeaders(_, _, _, _)
\* headers.forEach((header, index) => obj[header] = ...), from index on
ZipHeaders(headers, cells, index, obj) ==
    IF index >= Len(headers) THEN obj
    ELSE LET cell == CellAt(cells, index)
         IN  ZipHeaders(headers, cells, index + 1,
                        ObjSet(obj, ToStringJS(headers[index + 1]),
                               IF cell # Undef THEN cell ELSE Null))

RowObject(headers, cells) == ZipHeaders(headers, cells, 0, EmptyObject)

\* data.map(row => row[header]).filter(val => val !== null && val !== undefined)
ColumnValues(rowObjs, header) ==
    SelectSeq([j \in 1..Len(rowObjs) |-> ObjGet(rowObjs[j], ToStringJS(header))],
              LAMBDA val : val # Null /\ val # Undef)

\* entries of a column's values kept as its sample
SampleValuesSize == 5

ColumnDescriptor(rowObjs, header) ==
    LET columnValues == ColumnValues(rowObjs, header)
    IN  [name |-> header,
         type |-> analyzeColumnType(columnValues),
         sampleValues |-> Slice(columnValues, 0, SampleValuesSize)]

Pending == [status |-> "pending", message |-> "", data |-> <<>>, columns |-> <<>>, rowCount |-> 0]
Failed(msg) == [status |-> "error", message |-> msg, data |-> <<>>, columns |-> <<>>, rowCount |-> 0]

\* variant: the header row is not checked
processExcelFileNoHeaderCheck(sheet) ==
    IF Len(sheet) = 0
    THEN Failed("Failed to process Excel file: No data found in the Excel file")
    ELSE LET headers == sheet[1].cells
             rows == Slice(sheet, 1, Len(sheet))
             rowObjs == [j \in 1..Len(rows) |-> RowObject(headers, rows[j].cells)]
         IN  [status |-> "ok", message |-> "",
              data |-> rowObjs,
              columns |-> [i \in 1..Len(headers) |-> ColumnDescriptor(rowObjs, headers[i])],
              rowCount |-> Len(rows)]

\* variant: the header row is counted among the rows
processExcelFileCountingHeader(sheet) ==
    LET result == processExcelFileNoHeaderCheck(sheet)
    IN  IF Len(sheet) > 0 /\ (~sheet[1].defined \/ Len(sheet[1].cells) = 0)
        THEN Failed("Failed to process Excel file: No headers found in the Excel file")
        ELSE IF result.status = "ok" THEN [result EXCEPT !.rowCount = Len(sheet)]
        ELSE result

processExcelFile(sheet) ==
    IF Len(sheet) = 0
    THEN Failed("Failed to process Excel file: No data found in the Excel file")
    ELSE IF ~sheet[1].defined \/ Len(sheet[1].cells) = 0
    THEN Failed("Failed to process Excel file: No headers found in the Excel file")
    ELSE LET headers == sheet[1].cells
             rows == Slice(sheet, 1, Len(sheet))
             rowObjs == [j \in 1..Len(rows) |-> RowObject(headers, rows[j].cells)]
         IN  [status |-> "ok", message |-> "",
              data |-> rowObjs,
              columns |-> [i \in 1..Len(headers) |-> ColumnDescriptor(rowObjs, headers[i])],
              rowCount |-> Len(rows)]

HeaderCells == { Str(<<"a">>), Str(<<"b">>), Null }

\* data rows the ingestor is tried on: short, exact and over-long rows
SheetRowKinds ==
    { <<>>,
      <<Num(1)>>,
      <<Str(<<"x">>), Num(2)>>,
      <<Null, Str(<<"1", "2", "a">>), Num(7)>>,
      <<Undef, Str(<<"2", "0", "2", "3", "-", "0", "1", "-", "0", "1">>)>>,
      <<Num(4), Undef, Num(9), Num(8)>> }

SheetInputs ==
    {<<>>} \cup
    { <<hdr>> \o [j \in 1..Len(rows) |-> SheetRow(rows[j])] :
        hdr \in {NoRow} \cup {SheetRow(h) : h \in SeqsOf(HeaderCells, 0, MaxHeaders)},
        rows \in {<<>>} \cup { Cycle(base, n) : base \in SeqsOf(SheetRowKinds, 1, MaxBase),
                                                n \in 1..MaxDataRows } }

ProcessExcelFile ==
    /\ processed.status = "pending"
    /\ processed' = processExcelFile(jsonData)
    /\ UNCHANGED <<jsonData, inferVars, chartVars, statsVars, serverVars, clientVars>>

----------------------------------------------------------------------------
(* Chart Series Builder: processChartData *)

\* a value in a condition
Truthy(v) ==
    CASE v.t = "number" -> v.n # 0
      [] v.t = "string" -> v.s # <<>>
      [] v.t = "function" -> TRUE
      [] v.t = "object" -> TRUE
      [] OTHER -> FALSE

\* a || b
Or(a, b) == IF Truthy(a) THEN a ELSE b

\* a + b: text as soon as one side is text or an object, a number otherwise
Plus(a, b) ==
    IF a.t \in {"string", "function"} \/ b.t \in {"string", "function"}
    THEN Str(ToStringJS(a) \o ToStringJS(b))
    ELSE IF a.t = "number" /\ b.t = "number" THEN Num(a.n + b.n)
    ELSE NaNv

\* variant: without the || 0
ParsedOrNaN(row, column) == ParseFloat(ObjGet(row, column))

\* parseFloat(row[column]) || 0
ParsedOrZero(row, column) == Or(ParseFloat(ObjGet(row, column)), Num(0))

\* variant: a palette kept between calls, which moves on by one after a call
colorsKeptBetweenCalls ==
    IF chart.status = "pending" /\ chartAgain.status = "pending"
    THEN << "#FF6384", "#36A2EB", "#FFCE56", "#4BC0C0", "#9966FF",
            "#FF9F40", "#FF6384", "#C9CBCF", "#4BC0C0", "#FF6384" >>
    ELSE << "#36A2EB", "#FFCE56", "#4BC0C0", "#9966FF", "#FF9F40",
            "#FF6384", "#C9CBCF", "#4BC0C0", "#FF6384", "#FF6384" >>

colors ==
    << "#FF6384", "#36A2EB", "#FFCE56", "#4BC0C0", "#9966FF",
       "#FF9F40", "#FF6384", "#C9CBCF", "#4BC0C0", "#FF6384" >>

\* rows of the argument a bar, line or area series is built from
MaxChartRows == 50

\* the body of the pie branch's forEach: groupedData after one more row
GroupRow(groupedData, row, xColumn, yColumn) ==
    LET xValue == ObjGet(row, xColumn)
        yValue == ParsedOrZero(row, yColumn)
        key == ToStringJS(xValue)
    IN  IF Truthy(ObjGet(groupedData, key))
        THEN ObjSet(groupedData, key, Plus(ObjGet(groupedData, key), yValue))
        ELSE ObjSet(groupedData, key, yValue)

RECURSIVE GroupRows(_, _, _, _)
\* data.forEach of the pie branch: loop holds the rows done so far and
\* groupedData after them
GroupRows(loop, rows, xColumn, yColumn) ==
    IF loop.done >= Len(rows) THEN loop.groupedData
    ELSE GroupRows([done |-> loop.done + 1,
                    groupedData |-> GroupRow(loop.groupedData, rows[loop.done + 1],
                                             xColumn, yColumn)],
                   rows, xColumn, yColumn)

\* the dataset before a branch fills it
BaseDataset(ya) ==
    [label |-> Or(ya.label, Str(ya.column)),
     data |-> <<>>,
     backgroundColor |-> <<>>,
     borderColor |-> <<>>,
     borderWidth |-> 1,
     fill |-> "unset",
     tension |-> "unset"]

NoChart == [status |-> "pending", message |-> "", labels |-> <<>>, dataset |-> <<>>]
ChartFailed(msg) == [status |-> "error", message |-> msg, labels |-> <<>>, dataset |-> <<>>]

PieChart(rows, xa, ya) ==
    LET groupedData == GroupRows([done |-> 0, groupedData |-> EmptyObject], rows,
                                 xa.column, ya.column)
        keys == ObjectKeys(groupedData)
    IN  [status |-> "ok", message |-> "",
         labels |-> [i \in 1..Len(keys) |-> Str(keys[i])],
         dataset |-> [BaseDataset(ya) EXCEPT
             !.data = ObjectValues(groupedData),
             !.backgroundColor = [i \in 1..Len(keys) |-> colors[((i - 1) % Len(colors)) + 1]]]]

\* variant: the series cap applied to the points
ScatterChartCapped(rows, xa, ya) ==
    LET processedData == Slice(rows, 0, MaxChartRows)
    IN  [status |-> "ok", message |-> "",
         labels |-> <<>>,
         dataset |-> [BaseDataset(ya) EXCEPT
             !.data = [i \in 1..Len(processedData) |->
                          [x |-> ParsedOrZero(processedData[i], xa.column),
                           y |-> ParsedOrZero(processedData[i], ya.column)]],
             !.backgroundColor = colors[1],
             !.borderColor = colors[1]]]

ScatterChart(rows, xa, ya) ==
    [status |-> "ok", message |-> "",
     labels |-> <<>>,
     dataset |-> [BaseDataset(ya) EXCEPT
         !.data = [i \in 1..Len(rows) |-> [x |-> ParsedOrZero(rows[i], xa.column),
                                            y |-> ParsedOrZero(rows[i], ya.column)]],
         !.backgroundColor = colors[1],
         !.borderColor = colors[1]]]

\* variant: every row mapped, no cap
SeriesChartUncapped(rows, xa, ya, type) ==
    [status |-> "ok", message |-> "",
     labels |-> [i \in 1..Len(rows) |-> ObjGet(rows[i], xa.column)],
     dataset |-> [BaseDataset(ya) EXCEPT
         !.data = [i \in 1..Len(rows) |-> ParsedOrZero(rows[i], ya.column)]]]

\* the last branch: bar, line, area and any other type
SeriesChart(rows, xa, ya, type) ==
    LET processedData == Slice(rows, 0, MaxChartRows)
        series == [BaseDataset(ya) EXCEPT
            !.data = [i \in 1..Len(processedData) |-> ParsedOrZero(processedData[i], ya.column)]]
    IN  [status |-> "ok", message |-> "",
         labels |-> [i \in 1..Len(processedData) |-> ObjGet(processedData[i], xa.column)],
         dataset |->
             IF type = "bar"
             THEN [series EXCEPT !.backgroundColor = colors[1] \o "80",
                                 !.borderColor = colors[1]]
             ELSE IF type = "line" \/ type = "area"
             THEN [series EXCEPT
                      !.backgroundColor = IF type = "area" THEN colors[1] \o "30"
                                          ELSE "transparent",
                      !.borderColor = colors[1],
                      !.fill = IF type = "area" THEN "true" ELSE "false",
                      !.tension = "0.4"]
             ELSE series]

\* the rows argument: an array, or null / undefined
Rows(rows) == [defined |-> TRUE, rows |-> rows]
NoRows == [defined |-> FALSE, rows |-> <<>>]

\* variant: no guard against empty or absent rows
processChartDataNoGuard(d, xa, ya, type) ==
    IF type = "pie" THEN PieChart(d.rows, xa, ya)
    ELSE IF type = "scatter" THEN ScatterChart(d.rows, xa, ya)
    ELSE SeriesChart(d.rows, xa, ya, type)

processChartData(d, xa, ya, type) ==
    IF ~d.defined \/ Len(d.rows) = 0
    THEN ChartFailed("No data available for chart generation")
    ELSE IF type = "pie" THEN PieChart(d.rows, xa, ya)
    ELSE IF type = "scatter" THEN ScatterChart(d.rows, xa, ya)
    ELSE SeriesChart(d.rows, xa, ya, type)

ChartTypes == {"bar", "line", "pie", "scatter", "area"}

ColC == <<"c">>
ColV == <<"v">>
RowCV(c, v) == <<[key |-> ColC, val |-> c], [key |-> ColV, val |-> v]>>

\* rows the builder is tried on: repeated and integer-like x values, an x value
\* naming an inherited method, numeric, signed, text and missing y values
ChartRowKinds ==
    { RowCV(Str(<<"A">>), Num(1)),
      RowCV(Str(<<"A">>), Str(<<"-", "4">>)),
      RowCV(Num(2), Str(<<"1", "2", "a">>)),
      RowCV(Num(1), Str(<<"x">>)),
      RowCV(Str(<<"c", "o", "n", "s", "t", "r", "u", "c", "t", "o", "r">>), Num(3)),
      RowCV(Null, Null),
      <<[key |-> ColC, val |-> Str(<<"B">>)]>> }

ChartRowCounts == {n \in 1..MaxRows : n <= MaxShortRows \/ n >= MaxChartRows - 1}

ChartInputs ==
    {NoRows, Rows(<<>>)} \cup
    { Rows(Cycle(base, n)) : base \in SeqsOf(ChartRowKinds, 1, MaxBase), n \in ChartRowCounts }

\* variant: the series rows are cut out of the argument itself (splice)
RowsSplicedInPlace(d, xa, ya, type) ==
    IF d.defined /\ type \notin {"pie", "scatter"}
    THEN [d EXCEPT !.rows = Slice(@, 0, MaxChartRows)]
    ELSE d

\* the rows argument as the call leaves it: the builder reads the rows
\* (forEach, map) and writes only to chartData and groupedData, which it
\* creates; data.slice(0, 50) returns a new array
RowsAfterProcessChartData(d, xa, ya, type) == d

ProcessChartData ==
    /\ chart.status = "pending"
    /\ chart' = processChartData(data, xAxis, yAxis, chartType)
    /\ data' = RowsAfterProcessChartData(data, xAxis, yAxis, chartType)
    /\ UNCHANGED <<xAxis, yAxis, chartType, chartAgain, inferVars, ingestVars,
                   statsVars, serverVars, clientVars>>

\* a second call with the arguments of the first
ProcessChartDataAgain ==
    /\ chartAgain.status = "pending"
    /\ chartAgain' = processChartData(data, xAxis, yAxis, chartType)
    /\ data' = RowsAfterProcessChartData(data, xAxis, yAxis, chartType)
    /\ UNCHANGED <<xAxis, yAxis, chartType, chart, inferVars, ingestVars,
                   statsVars, serverVars, clientVars>>

----------------------------------------------------------------------------
(* Descriptive Statistics Calculator: calculateStatistics                  *)
(* A returned figure is held in hundredths, as parseFloat(x.toFixed(2))    *)
(* leaves two decimals. A quotient is the double nearest to the exact      *)
(* quotient, and toFixed rounds that double, not the exact quotient.       *)

Abs(a) == IF a < 0 THEN -a ELSE a

RECURSIVE BitLength(_)
\* the number of binary digits of a natural number
BitLength(x) == IF x = 0 THEN 0 ELSE 1 + BitLength(x \div 2)

\* significant binary digits of a double
MantissaBits == 53

RECURSIVE QuotientRounding(_, _, _, _, _)
\* binary long division of r / b with n significant digits still to produce:
\* whether the quotient is held exactly or rounded down or up (to nearest, ties
\* to even) once the digits are used up
QuotientRounding(r, b, n, started, odd) ==
    IF r = 0 THEN "exact"
    ELSE IF n = 0
    THEN IF 2 * r > b THEN "up"
         ELSE IF 2 * r < b THEN "down"
         ELSE IF odd THEN "up" ELSE "down"
    ELSE LET bit == IF 2 * r >= b THEN 1 ELSE 0
             significant == started \/ bit = 1
         IN  QuotientRounding(2 * r - bit * b, b, IF significant THEN n - 1 ELSE n,
                              significant, bit = 1)

\* how the double a / b stands to the exact quotient, for a >= 0 and b > 0
DoubleOfQuotient(a, b) ==
    QuotientRounding(a % b, b, MantissaBits - BitLength(a \div b), a \div b > 0,
                     (a \div b) % 2 = 1)

\* parseFloat((num / den).toFixed(2)) in hundredths: the hundredth nearest to
\* the double num / den, the larger in magnitude when the double is midway
ToFixed2(num, den) ==
    LET a == Abs(num)
        low == (100 * a) \div den
        twice == 2 * ((100 * a) % den)
        q == IF twice > den THEN low + 1
             ELSE IF twice < den THEN low
             ELSE IF DoubleOfQuotient(a, den) = "down" THEN low ELSE low + 1
    IN  IF num < 0 THEN -q ELSE q

RECURSIVE SqrtFloor(_, _, _)
\* the largest r in lo..hi with r * r <= x
SqrtFloor(x, lo, hi) ==
    IF lo >= hi THEN lo
    ELSE LET mid == (lo + hi + 1) \div 2
         IN  IF mid * mid <= x THEN SqrtFloor(x, mid, hi) ELSE SqrtFloor(x, lo, mid - 1)

\* parseFloat(Math.sqrt(num / (den * den)).toFixed(2)) in hundredths
SqrtToFixed2(num, den) ==
    LET x == 4 * 10000 * num
    IN  (SqrtFloor(x, 0, Min(200 * (num + 1), 46340)) + den) \div (2 * den)

RECURSIVE InsertSorted(_, _)
InsertSorted(sorted, a) ==
    IF sorted = <<>> THEN <<a>>
    ELSE IF a.n - Head(sorted).n < 0 THEN <<a>> \o sorted
    ELSE <<Head(sorted)>> \o InsertSorted(Tail(sorted), a)

\* variant: the array is left in the order given
KeepOrder(numbers) == numbers

RECURSIVE SortNumbers(_)
\* numbers.sort((a, b) => a - b)
SortNumbers(numbers) ==
    IF numbers = <<>> THEN <<>>
    ELSE InsertSorted(SortNumbers(SubSeq(numbers, 1, Len(numbers) - 1)), numbers[Len(numbers)])

RECURSIVE SumOf(_)
SumOf(numbers) == IF numbers = <<>> THEN 0 ELSE Head(numbers).n + SumOf(Tail(numbers))

RECURSIVE SumOfSquares(_)
SumOfSquares(numbers) ==
    IF numbers = <<>> THEN 0 ELSE Head(numbers).n * Head(numbers).n + SumOfSquares(Tail(numbers))

\* occurrences of v among the first i entries
FrequencyAt(numbers, i, v) == Cardinality({j \in 1..i : numbers[j] = v})

RECURSIVE ModeScan(_, _, _, _)
\* the forEach that finds the mode, from index i (1-based) on
ModeScan(numbers, i, maxFreq, mode) ==
    IF i > Len(numbers) THEN mode
    ELSE IF FrequencyAt(numbers, i, numbers[i]) > maxFreq
    THEN ModeScan(numbers, i + 1, FrequencyAt(numbers, i, numbers[i]), numbers[i])
    ELSE ModeScan(numbers, i + 1, maxFreq, mode)

\* the argument: an array, or null / undefined
Given(items) == [defined |-> TRUE, items |-> items]
NotGiven == [defined |-> FALSE, items |-> <<>>]

NoStatistics ==
    [status |-> "pending", mean |-> 0, median |-> 0, mode |-> 0, range |-> 0,
     standardDeviation |-> 0]
NullStatistics == [NoStatistics EXCEPT !.status = "null"]

\* variant: whatever parses as a number is kept
NumericTextToo(val) == ~IsNaNv(ParseFloat(val))

\* val => typeof val === 'number' && !isNaN(val)
IsUsableNumber(val) == TypeofNumber(val) /\ ~IsNaNv(val)

calculateStatistics(d) ==
    IF ~d.defined \/ Len(d.items) = 0 THEN NullStatistics
    ELSE LET filtered == SelectSeq(d.items, IsUsableNumber)
         IN  IF Len(filtered) = 0 THEN NullStatistics
             ELSE LET \* sort works in place: numbers and sorted are one array
                      numbers == SortNumbers(filtered)
                      sorted == numbers
                      count == Len(numbers)
                      sum == SumOf(numbers)
                      half == count \div 2
                      mode == ModeScan(numbers, 1, 0, Null)
                  IN  IF mode = Null
                      THEN \* null.toFixed: a TypeError
                           [NoStatistics EXCEPT !.status = "error"]
                      ELSE
                      [status |-> "stats",
                       mean |-> ToFixed2(sum, count),
                       median |-> IF count % 2 = 0
                                  THEN ToFixed2(sorted[half].n + sorted[half + 1].n, 2)
                                  ELSE ToFixed2(sorted[half + 1].n, 1),
                       mode |-> ToFixed2(mode.n, 1),
                       range |-> ToFixed2(sorted[Len(sorted)].n - sorted[1].n, 1),
                       standardDeviation |->
                           SqrtToFixed2(count * SumOfSquares(numbers) - sum * sum, count)]

StatsCells == { Num(1), Num(2), Num(-3), NaNv, Str(<<"7">>), Null }

\* n entries of one value
Run(v, n) == [i \in 1..n |-> v]

\* long arguments: a run of one number and then a run of another
StatsRuns ==
    { Run(a, k) \o Run(b, m) :
        a \in {Num(1), Num(2), Num(-3)}, b \in {Num(1), Num(2), Num(-3)},
        k \in 1..MaxHeadRun, m \in 1..MaxTailRun }

StatsExamples ==
    { <<Num(1), Num(2), Num(3), Num(4)>>, <<Num(4), Num(1), Num(3), Num(2)>>,
      <<Num(1), Num(3), Num(5)>>, <<Num(5), Num(1), Num(3)>> }

StatsInputs ==
    {NotGiven} \cup
    { Given(items) : items \in SeqsOf(StatsCells, 0, MaxStats) \cup StatsRuns \cup StatsExamples }

\* variant: numbers is the argument itself, not a copy
NumbersIsData(d) == [data |-> d.items, numbers |-> d.items, same |-> TRUE]

\* the two arrays of a call after data.filter(...): filter returns a new array
FilterNumbers(d) ==
    [data |-> d.items, numbers |-> SelectSeq(d.items, IsUsableNumber), same |-> FALSE]

\* numbers.sort(...): the array is sorted in place, under each of its names
SortInPlace(arrays) ==
    IF arrays.same
    THEN [arrays EXCEPT !.numbers = SortNumbers(@), !.data = SortNumbers(@)]
    ELSE [arrays EXCEPT !.numbers = SortNumbers(@)]

\* the argument as the call leaves it
DataAfterCalculateStatistics(d) ==
    IF ~d.defined \/ Len(d.items) = 0 THEN d
    ELSE IF Len(FilterNumbers(d).numbers) = 0 THEN d
    ELSE [d EXCEPT !.items = SortInPlace(FilterNumbers(d)).data]

CalculateStatistics ==
    /\ statistics.status = "pending"
    /\ statistics' = calculateStatistics(statsData)
    /\ statsData' = DataAfterCalculateStatistics(statsData)
    /\ UNCHANGED <<inferVars, ingestVars, chartVars, serverVars, clientVars>>

----------------------------------------------------------------------------
(* Server store and request handlers.  The store holds the User, Upload    *)
(* and Analysis records; a record's _id is a number that is never reused.  *)
(* A handler runs from request to response in one step.  A store write may *)
(* be rejected, which sends the handler to its catch block.                *)

UserIds == {"u1", "u2"}

\* no record has this id
NoId == 0

\* the users' records before any request: nothing uploaded, nothing analysed
InitialUsers == [u \in UserIds |-> [role |-> "user", uploads |-> <<>>, analyses |-> <<>>]]

\* the chart type and axis columns of a request that has none
NoSelection == [chartType |-> "", xColumn |-> <<>>, yColumn |-> <<>>]

\* chartType, xAxis.column and yAxis.column of req.body
Selection(body) ==
    [chartType |-> body.chartType, xColumn |-> body.xAxis.column,
     yColumn |-> body.yAxis.column]

Request(kind, caller, id, complete) ==
    [kind |-> kind, caller |-> caller, id |-> id, complete |-> complete,
     selection |-> NoSelection, target |-> "nobody"]
NoRequest == Request("none", "nobody", NoId, TRUE)

\* the status of the answer and the ids of the records its body shows
Response(status, shownUploads, shownAnalyses) ==
    [status |-> status, shownUploads |-> shownUploads, shownAnalyses |-> shownAnalyses]
NoResponse == Response(0, {}, {})

\* variant: the record with that id, whoever owns it
FindAny(db, id, user) == {r \in db : r.id = id}

\* Model.findOne({ _id: id, user: req.user.id })
FindOne(db, id, user) == {r \in db : r.id = id /\ r.user = user}

\* Model.find({ user: req.user.id })
FindOwned(db, user) == {r \in db : r.user = user}

\* variant: save overwrites the uploads the user already has
SaveOverOwn(db, record) ==
    {IF r.user = record.user THEN [record EXCEPT !.id = r.id] ELSE r : r \in db}
        \cup {record}

\* record.save() of a new record
Save(db, record) == db \cup {record}

\* Model.findByIdAndDelete(id)
FindByIdAndDelete(db, id) == {r \in db : r.id # id}

\* User.findByIdAndUpdate(user, { $push: { [field]: id } })
Push(us, user, field, id) ==
    IF field = "uploads"
    THEN [us EXCEPT ![user].uploads = Append(@, id)]
    ELSE [us EXCEPT ![user].analyses = Append(@, id)]

\* User.findByIdAndUpdate(user, { $pull: { [field]: id } })
Pull(us, user, field, id) ==
    IF field = "uploads"
    THEN [us EXCEPT ![user].uploads = SelectSeq(@, LAMBDA x : x # id)]
    ELSE [us EXCEPT ![user].analyses = SelectSeq(@, LAMBDA x : x # id)]

\* which store write of a handler is rejected: none, the first (the write of
\* the record) or the second (the update of the user's id list)
Faults == {"none", "first", "second"}

\* the auth middleware: the caller's User record is found
auth(caller) == caller \in DOMAIN users

\* its answer when the record is not found; the handler is not run
Denied(kind, caller) ==
    /\ request' = Request(kind, caller, NoId, TRUE)
    /\ response' = Response(401, {}, {})
    /\ UNCHANGED <<users, uploads, analyses, nextId>>

\* new Upload({user, columns, rowCount, data, ...})
NewUpload(id, caller, processedData) ==
    [id |-> id, user |-> caller,
     columns |-> processedData.columns,
     rowCount |-> processedData.rowCount,
     data |-> processedData.data]

\* POST /api/upload
PostUpload(caller, file) ==
    LET processedData == processExcelFile(file.sheet)
        uploadRecord == NewUpload(nextId, caller, processedData)
    IN  /\ request' = Request("postUpload", caller, NoId, file.present)
        /\ UNCHANGED analyses
        /\ IF ~file.present
           THEN /\ response' = Response(400, {}, {})
                /\ UNCHANGED <<users, uploads, nextId>>
           ELSE IF processedData.status = "error"
           THEN /\ response' = Response(500, {}, {})
                /\ UNCHANGED <<users, uploads, nextId>>
           ELSE \E fault \in Faults :
                IF fault = "first"
                THEN /\ response' = Response(500, {}, {})
                     /\ UNCHANGED <<users, uploads, nextId>>
                ELSE /\ nextId <= MaxRecords
                     /\ uploads' = Save(uploads, uploadRecord)
                     /\ nextId' = nextId + 1
                     /\ IF fault = "second"
                        THEN /\ response' = Response(500, {}, {})
                             /\ UNCHANGED users
                        ELSE /\ users' = Push(users, caller, "uploads", nextId)
                             /\ response' = Response(201, {nextId}, {})

\* GET /api/upload
GetUploads(caller) ==
    /\ request' = Request("getUploads", caller, NoId, TRUE)
    /\ response' = Response(200, {r.id : r \in FindOwned(uploads, caller)}, {})
    /\ UNCHANGED <<users, uploads, analyses, nextId>>

\* GET /api/upload/:id
GetUpload(caller, id) ==
    LET upload == FindOne(uploads, id, caller)
    IN  /\ request' = Request("getUpload", caller, id, TRUE)
        /\ response' = IF upload = {} THEN Response(404, {}, {})
                       ELSE Response(200, {r.id : r \in upload}, {})
        /\ UNCHANGED <<users, uploads, analyses, nextId>>

\* DELETE /api/upload/:id
DeleteUpload(caller, id) ==
    LET upload == FindOne(uploads, id, caller)
    IN  /\ request' = Request("deleteUpload", caller, id, TRUE)
        /\ UNCHANGED <<analyses, nextId>>
        /\ IF upload = {}
           THEN /\ response' = Response(404, {}, {})
                /\ UNCHANGED <<users, uploads>>
           ELSE \E fault \in Faults :
                IF fault = "first"
                THEN /\ response' = Response(500, {}, {})
                     /\ UNCHANGED <<users, uploads>>
                ELSE /\ uploads' = FindByIdAndDelete(uploads, id)
                     /\ IF fault = "second"
                        THEN /\ response' = Response(500, {}, {})
                             /\ UNCHANGED users
                        ELSE /\ users' = Pull(users, caller, "uploads", id)
                             /\ response' = Response(200, {}, {})

\* variant: a sixth chart type is let through
validChartTypesAndRadar == {"bar", "line", "pie", "scatter", "area", "radar"}

validChartTypes == {"bar", "line", "pie", "scatter", "area"}

\* the texts of the chart's title and axis titles
generateChartConfig(type, chartData, xa, ya) ==
    [type |-> type,
     legend |-> IF type = "pie" THEN "right" ELSE "top",
     xTitle |-> Or(xa.label, Str(xa.column)),
     yTitle |-> Or(ya.label, Str(ya.column)),
     scales |-> type # "pie",
     data |-> chartData]

\* variant: the y values of the rows a bar, line or area series is built from
YAxisDataOfSeriesRows(rows, ya) ==
    SelectSeq([j \in 1..Min(Len(rows), MaxChartRows) |->
                   ParseFloat(ObjGet(rows[j], ya.column))],
              LAMBDA val : ~IsNaNv(val))

\* upload.data.map(row => parseFloat(row[yAxis.column])).filter(val => !isNaN(val))
YAxisData(rows, ya) ==
    SelectSeq([j \in 1..Len(rows) |-> ParseFloat(ObjGet(rows[j], ya.column))],
              LAMBDA val : ~IsNaNv(val))

\* POST /api/analysis
PostAnalysis(caller, body) ==
    LET found == FindOne(uploads, body.uploadId, caller)
        upload == CHOOSE r \in found : TRUE
        columns == {upload.columns[i].name : i \in 1..Len(upload.columns)}
        chartData == processChartData(Rows(upload.data), body.xAxis, body.yAxis,
                                      body.chartType)
        stats == calculateStatistics(Given(YAxisData(upload.data, body.yAxis)))
        analysis == [id |-> nextId, user |-> caller, upload |-> body.uploadId,
                     chartType |-> body.chartType,
                     xAxis |-> body.xAxis, yAxis |-> body.yAxis,
                     chartConfig |-> generateChartConfig(body.chartType, chartData,
                                                         body.xAxis, body.yAxis),
                     chartData |-> chartData,
                     statistics |-> stats]
    IN  /\ request' = [Request("postAnalysis", caller, body.uploadId, body.complete)
                           EXCEPT !.selection = Selection(body)]
        /\ UNCHANGED uploads
        /\ IF ~body.complete \/ body.uploadId = NoId
           THEN /\ response' = Response(400, {}, {})
                /\ UNCHANGED <<users, analyses, nextId>>
           ELSE IF found = {}
           THEN /\ response' = Response(404, {}, {})
                /\ UNCHANGED <<users, analyses, nextId>>
           ELSE IF body.chartType \notin validChartTypes
           THEN /\ response' = Response(400, {}, {})
                /\ UNCHANGED <<users, analyses, nextId>>
           ELSE IF Str(body.xAxis.column) \notin columns \/ Str(body.yAxis.column) \notin columns
           THEN /\ response' = Response(400, {}, {})
                /\ UNCHANGED <<users, analyses, nextId>>
           ELSE IF chartData.status = "error" \/ stats.status = "error"
           THEN /\ response' = Response(500, {}, {})
                /\ UNCHANGED <<users, analyses, nextId>>
           ELSE \E fault \in Faults :
                IF fault = "first"
                THEN /\ response' = Response(500, {}, {})
                     /\ UNCHANGED <<users, analyses, nextId>>
                ELSE /\ nextId <= MaxRecords
                     /\ analyses' = Save(analyses, analysis)
                     /\ nextId' = nextId + 1
                     /\ IF fault = "second"
                        THEN /\ response' = Response(500, {}, {})
                             /\ UNCHANGED users
                        ELSE /\ users' = Push(users, caller, "analyses", nextId)
                             /\ response' = Response(201, {}, {nextId})

\* the uploads that populate('upload', ...) attaches to the analyses
Populated(shown) == {r.id : r \in {u \in uploads : \E a \in shown : a.upload = u.id}}

\* GET /api/analysis
GetAnalyses(caller) ==
    LET shown == FindOwned(analyses, caller)
    IN  /\ request' = Request("getAnalyses", caller, NoId, TRUE)
        /\ response' = Response(200, Populated(shown), {a.id : a \in shown})
        /\ UNCHANGED <<users, uploads, analyses, nextId>>

\* GET /api/analysis/:id
GetAnalysis(caller, id) ==
    LET analysis == FindOne(analyses, id, caller)
    IN  /\ request' = Request("getAnalysis", caller, id, TRUE)
        /\ response' = IF analysis = {} THEN Response(404, {}, {})
                       ELSE Response(200, Populated(analysis), {a.id : a \in analysis})
        /\ UNCHANGED <<users, uploads, analyses, nextId>>

\* DELETE /api/analysis/:id
DeleteAnalysis(caller, id) ==
    LET analysis == FindOne(analyses, id, caller)
    IN  /\ request' = Request("deleteAnalysis", caller, id, TRUE)
        /\ UNCHANGED <<uploads, nextId>>
        /\ IF analysis = {}
           THEN /\ response' = Response(404, {}, {})
                /\ UNCHANGED <<users, analyses>>
           ELSE \E fault \in Faults :
                IF fault = "first"
                THEN /\ response' = Response(500, {}, {})
                     /\ UNCHANGED <<users, analyses>>
                ELSE /\ analyses' = FindByIdAndDelete(analyses, id)
                     /\ IF fault = "second"
                        THEN /\ response' = Response(500, {}, {})
                             /\ UNCHANGED users
                        ELSE /\ users' = Pull(users, caller, "analyses", id)
                             /\ response' = Response(200, {}, {})

\* uploaded files: none, unreadable sheets, a sheet without data rows and a
\* sheet with data rows
Files ==
    { [present |-> FALSE, sheet |-> <<>>],
      [present |-> TRUE, sheet |-> <<>>],
      [present |-> TRUE, sheet |-> <<SheetRow(<<Str(ColC), Str(ColV)>>)>>],
      [present |-> TRUE,
       sheet |-> <<SheetRow(<<Str(ColC), Str(ColV)>>),
                   SheetRow(<<Str(<<"A">>), Num(1)>>),
                   SheetRow(<<Str(<<"B">>), Str(<<"-", "4">>)>>)>>] }

\* bodies of analysis requests: with and without the required fields, a chart
\* type that is not offered, an axis column the upload lacks
Body(complete, id, type, x, y) ==
    [complete |-> complete, uploadId |-> id, chartType |-> type,
     xAxis |-> [column |-> x, label |-> Undef],
     yAxis |-> [column |-> y, label |-> Undef]]

Bodies ==
    { Body(TRUE, id, type, axes[1], axes[2]) :
        id \in 0..MaxRecords, type \in {"bar", "pie", "radar"},
        axes \in {<<ColC, ColV>>, <<(<<"z">>), ColV>>, <<ColC, (<<"z">>)>>} }
    \cup { Body(FALSE, id, "bar", ColC, ColV) : id \in 1..MaxRecords }

RecordIds == 1..MaxRecords

OtherComponentsIdle == UNCHANGED <<inferVars, ingestVars, chartVars, statsVars, clientVars>>

UploadPost ==
    /\ \E caller \in UserIds, file \in Files :
         IF auth(caller) THEN PostUpload(caller, file) ELSE Denied("postUpload", caller)
    /\ OtherComponentsIdle

UploadList ==
    /\ \E caller \in UserIds :
         IF auth(caller) THEN GetUploads(caller) ELSE Denied("getUploads", caller)
    /\ OtherComponentsIdle

UploadGet ==
    /\ \E caller \in UserIds, id \in RecordIds :
         IF auth(caller) THEN GetUpload(caller, id) ELSE Denied("getUpload", caller)
    /\ OtherComponentsIdle

UploadDelete ==
    /\ \E caller \in UserIds, id \in RecordIds :
         IF auth(caller) THEN DeleteUpload(caller, id) ELSE Denied("deleteUpload", caller)
    /\ OtherComponentsIdle

AnalysisPost ==
    /\ \E caller \in UserIds, body \in Bodies :
         IF auth(caller) THEN PostAnalysis(caller, body) ELSE Denied("postAnalysis", caller)
    /\ OtherComponentsIdle

AnalysisList ==
    /\ \E caller \in UserIds :
         IF auth(caller) THEN GetAnalyses(caller) ELSE Denied("getAnalyses", caller)
    /\ OtherComponentsIdle

AnalysisGet ==
    /\ \E caller \in UserIds, id \in RecordIds :
         IF auth(caller) THEN GetAnalysis(caller, id) ELSE Denied("getAnalysis", caller)
    /\ OtherComponentsIdle

AnalysisDelete ==
    /\ \E caller \in UserIds, id \in RecordIds :
         IF auth(caller) THEN DeleteAnalysis(caller, id) ELSE Denied("deleteAnalysis", caller)
    /\ OtherComponentsIdle

\* variant: deleteMany without the filter
DeleteEvery(db, user) == {}

\* Model.deleteMany({ user })
DeleteMany(db, user) == {r \in db : r.user # user}

\* User.findByIdAndDelete(id)
DeleteUserById(us, id) == [u \in DOMAIN us \ {id} |-> us[u]]

\* the three store writes of the admin's delete, any of which may be rejected
AdminFaults == Faults \cup {"third"}

\* DELETE /api/admin/users/:id.  adminAuth is not part of the sources at
\* hand: it lets the caller through or not (passes), and the id it puts in
\* req.user is or is not of the kind that === finds equal to the id of the
\* path (comparable).
DeleteUser(caller, id, passes, comparable) ==
    /\ request' = [Request("deleteUser", caller, NoId, TRUE) EXCEPT !.target = id]
    /\ UNCHANGED nextId
    /\ IF ~passes
       THEN /\ response' = Response(403, {}, {})
            /\ UNCHANGED <<users, uploads, analyses>>
       ELSE IF comparable /\ id = caller
       THEN /\ response' = Response(400, {}, {})
            /\ UNCHANGED <<users, uploads, analyses>>
       ELSE IF id \notin DOMAIN users
       THEN /\ response' = Response(404, {}, {})
            /\ UNCHANGED <<users, uploads, analyses>>
       ELSE \E fault \in AdminFaults :
            IF fault = "first"
            THEN /\ response' = Response(500, {}, {})
                 /\ UNCHANGED <<users, uploads, analyses>>
            ELSE /\ uploads' = DeleteMany(uploads, id)
                 /\ IF fault = "second"
                    THEN /\ response' = Response(500, {}, {})
                         /\ UNCHANGED <<users, analyses>>
                    ELSE /\ analyses' = DeleteMany(analyses, id)
                         /\ IF fault = "third"
                            THEN /\ response' = Response(500, {}, {})
                                 /\ UNCHANGED users
                            ELSE /\ users' = DeleteUserById(users, id)
                                 /\ response' = Response(200, {}, {})

UserDelete ==
    /\ \E caller \in UserIds, id \in UserIds, passes \in BOOLEAN, comparable \in BOOLEAN :
         IF auth(caller) THEN DeleteUser(caller, id, passes, comparable)
         ELSE Denied("deleteUser", caller)
    /\ OtherComponentsIdle

\* sheets of stored Uploads the statistics of an Analysis are taken from: y
\* values as numbers and as numeric text, more rows than a series shows with
\* the largest y value, or the only readable ones, after row 50, and no
\* readable y value at all
LoadedSheets ==
    LET header == <<SheetRow(<<Str(ColC), Str(ColV)>>)>>
        row(c, v) == SheetRow(<<Str(<<c>>), v>>)
        long == MaxChartRows + 2
    IN  { header \o <<row("A", Num(1)), row("B", Str(<<"-", "4">>))>>,
          header \o [i \in 1..long |->
                        IF i <= 2 THEN row("A", Num(i))
                        ELSE IF i <= MaxChartRows THEN row("A", Str(<<"x">>))
                        ELSE row("B", Str(<<"7">>))],
          header \o [i \in 1..long |->
                        IF i <= MaxChartRows THEN row("A", Str(<<"x">>))
                        ELSE row("B", Num(i - MaxChartRows))],
          header \o <<row("A", Str(<<"x">>)), row("B", Null), row("A", Str(<<>>))>> }

\* bodies asking for each chart type, with either column as the y axis
AllTypesBodies ==
    { Body(TRUE, 1, type, ColC, y) : type \in ChartTypes \cup {"radar"}, y \in {ColV, ColC} }
    \cup {Body(FALSE, 1, "bar", ColC, ColV)}

AnalysisPostAllTypes ==
    /\ \E caller \in UserIds, body \in AllTypesBodies :
         IF auth(caller) THEN PostAnalysis(caller, body) ELSE Denied("postAnalysis", caller)
    /\ OtherComponentsIdle

HandleRequest ==
    \/ UploadPost \/ UploadList \/ UploadGet \/ UploadDelete
    \/ AnalysisPost \/ AnalysisList \/ AnalysisGet \/ AnalysisDelete
    \/ UserDelete

----------------------------------------------------------------------------
(* The clients: the Redux authSlice and the context AppProvider *)

\* localStorage.getItem answers null for a key that is not set
EmptyStorage == [token |-> Null, user |-> Null, uploads |-> Null, analyses |-> Null]

\* the store before it is created
NoAuthState ==
    [created |-> FALSE, user |-> Null, token |-> Null, isLoading |-> FALSE,
     isAuthenticated |-> FALSE]

\* the provider before it is mounted
NoContext == [mounted |-> FALSE, user |-> Null, uploads |-> <<>>, analyses |-> <<>>]

\* a user object, named by its id
UserObject(id) == [t |-> "object", n |-> 0, s |-> <<id>>]
ClientUsers == {UserObject(id) : id \in UserIds}

\* localStorage.setItem(key, value): the value is stored as its text
SetItem(storage, key, value) == [storage EXCEPT ![key] = Str(ToStringJS(value))]
\* localStorage.removeItem(key)
RemoveItem(storage, key) == [storage EXCEPT ![key] = Null]
\* localStorage.getItem(key): the text, or null when the key is not set
GetItem(storage, key) == storage[key]

\* the slice state and localStorage a reducer leaves
AuthAndStorage(state, storage) == [state |-> state, storage |-> storage]

\* authSlice.initialState
initialState(storage) ==
    [created |-> TRUE,
     user |-> Null,
     token |-> GetItem(storage, "token"),
     isLoading |-> FALSE,
     isAuthenticated |-> Truthy(GetItem(storage, "token"))]

loginStart(state, storage) ==
    AuthAndStorage([state EXCEPT !.isLoading = TRUE], storage)

loginSuccess(state, storage, payload) ==
    AuthAndStorage([state EXCEPT !.isLoading = FALSE, !.isAuthenticated = TRUE,
                                 !.user = payload.user, !.token = payload.token],
                   SetItem(storage, "token", payload.token))

loginFailure(state, storage) ==
    AuthAndStorage([state EXCEPT !.isLoading = FALSE, !.isAuthenticated = FALSE,
                                 !.user = Null, !.token = Null],
                   RemoveItem(storage, "token"))

\* variant: the token is left in localStorage
logoutKeepingToken(state, storage) ==
    AuthAndStorage([state EXCEPT !.isAuthenticated = FALSE, !.user = Null, !.token = Null],
                   storage)

logout(state, storage) ==
    AuthAndStorage([state EXCEPT !.isAuthenticated = FALSE, !.user = Null, !.token = Null],
                   RemoveItem(storage, "token"))

\* longest token
MaxTokenLen == 3
\* tokens the server issues
Tokens == {Str(cs) : cs \in SeqsOf({"a", "b", "c"}, 1, MaxTokenLen)}

\* what apiService.login and register answer: a user and a token, or a
\* message and no token, or an empty token
LoginResponses ==
    { [user |-> u, token |-> t] : u \in ClientUsers, t \in Tokens }
    \cup { [user |-> Undef, token |-> t] : t \in {Undef, Str(<<>>)} }

\* dispatch of a reducer: the store and localStorage take what it leaves
Dispatch(result) ==
    /\ authState.created
    /\ authState' = result.state
    /\ localStorage' = result.storage

ReduxIdle == UNCHANGED <<context, inferVars, ingestVars, chartVars, statsVars, serverVars>>

\* handleSubmit: dispatch(loginStart())
LoginStart ==
    /\ Dispatch(loginStart(authState, localStorage))
    /\ ReduxIdle

\* handleSubmit: the answer has a token or not
LoginAnswered ==
    /\ \E answer \in LoginResponses :
         IF Truthy(answer.token)
         THEN Dispatch(loginSuccess(authState, localStorage, answer))
         ELSE Dispatch(loginFailure(authState, localStorage))
    /\ ReduxIdle

\* handleSubmit: the request threw
LoginThrew ==
    /\ Dispatch(loginFailure(authState, localStorage))
    /\ ReduxIdle

Logout ==
    /\ Dispatch(logout(authState, localStorage))
    /\ ReduxIdle

\* JSON.stringify(v): a text that JSON.parse reads v back from.  The values
\* stored are null, arrays and objects of texts, which the text form keeps.
JSONStringify(v) == [t |-> "string", n |-> 0, s |-> <<"json">>, json |-> v]
JSONParse(text) == text.json

\* JSON.parse(localStorage.getItem(key) || fallback)
StoredOr(storage, key, fallback) ==
    JSONParse(Or(GetItem(storage, key), JSONStringify(fallback)))

\* most items of a list
MaxItems == 2

\* an upload or analysis of the client; addedBy is the id of the user who was
\* logged in when it was added, which the program does not record
Item(id, addedBy) == [id |-> id, addedBy |-> addedBy]

\* useState initialisers of AppProvider
Mounted(storage) ==
    [mounted |-> TRUE, user |-> StoredOr(storage, "user", Null),
     uploads |-> <<>>, analyses |-> <<>>]

\* the effect on [user]: if (user) loadData()
AfterUserEffect(ctx, storage) ==
    IF Truthy(ctx.user)
    THEN [ctx EXCEPT !.uploads = StoredOr(storage, "uploads", <<>>),
                     !.analyses = StoredOr(storage, "analyses", <<>>)]
    ELSE ctx

ClientIdle == UNCHANGED <<authState, inferVars, ingestVars, chartVars, statsVars, serverVars>>

\* the page is loaded again: the provider is mounted over localStorage
Reload ==
    /\ context.mounted
    /\ context' = AfterUserEffect(Mounted(localStorage), localStorage)
    /\ UNCHANGED localStorage
    /\ ClientIdle

\* login(userData), from the login form shown while no user is logged in
ContextLogin ==
    /\ context.mounted /\ ~Truthy(context.user)
    /\ \E userData \in ClientUsers :
         /\ localStorage' = [localStorage EXCEPT !.user = JSONStringify(userData)]
         /\ context' = AfterUserEffect([context EXCEPT !.user = userData], localStorage')
    /\ ClientIdle

\* logout(), from the header shown to a logged-in user
ContextLogout ==
    /\ context.mounted /\ Truthy(context.user)
    /\ context' = [context EXCEPT !.user = Null, !.uploads = <<>>, !.analyses = <<>>]
    /\ localStorage' = RemoveItem(localStorage, "user")
    /\ ClientIdle

\* ids an item added to a list may get
FreshIds(list) == {id \in 1..MaxItems : \A i \in 1..Len(list) : list[i].id # id}

\* addUpload(upload) and addAnalysis(analysis): [item, ...list]
AddItem(key) ==
    /\ context.mounted /\ Truthy(context.user)
    /\ \E id \in FreshIds(context[key]) :
         LET newItems == <<Item(id, context.user.s[1])>> \o context[key]
         IN  /\ context' = [context EXCEPT ![key] = newItems]
             /\ localStorage' = [localStorage EXCEPT ![key] = JSONStringify(newItems)]

\* removeUpload(id) and removeAnalysis(id): list.filter(u => u.id !== id)
RemoveItemOf(key) ==
    /\ context.mounted /\ Truthy(context.user)
    /\ \E id \in 1..MaxItems :
         LET filtered == SelectSeq(context[key], LAMBDA u : u.id # id)
         IN  /\ context' = [context EXCEPT ![key] = filtered]
             /\ localStorage' = [localStorage EXCEPT ![key] = JSONStringify(filtered)]

AddUpload ==
    /\ AddItem("uploads")
    /\ ClientIdle

RemoveUpload ==
    /\ RemoveItemOf("uploads")
    /\ ClientIdle

AddAnalysis ==
    /\ AddItem("analyses")
    /\ ClientIdle

RemoveAnalysis ==
    /\ RemoveItemOf("analyses")
    /\ ClientIdle

ContextNext ==
    \/ Reload \/ ContextLogin \/ ContextLogout
    \/ AddUpload \/ RemoveUpload \/ AddAnalysis \/ RemoveAnalysis

----------------------------------------------------------------------------
(* Specifications: each component is called once on an input of its own *)

IdleClient ==
    /\ authState = NoAuthState
    /\ context = NoContext
    /\ localStorage = EmptyStorage
IdleInfer == values = <<>> /\ columnType = "idle"
IdleIngest == jsonData = <<>> /\ processed = [Pending EXCEPT !.status = "idle"]
IdleChart ==
    /\ data = NoRows
    /\ xAxis = [column |-> ColC, label |-> Undef]
    /\ yAxis = [column |-> ColV, label |-> Undef]
    /\ chartType = "bar"
    /\ chart = [NoChart EXCEPT !.status = "idle"]
    /\ chartAgain = [NoChart EXCEPT !.status = "idle"]
IdleStats == statsData = NotGiven /\ statistics = [NoStatistics EXCEPT !.status = "idle"]
IdleServer ==
    /\ users = InitialUsers
    /\ uploads = {}
    /\ analyses = {}
    /\ nextId = NoId
    /\ request = NoRequest
    /\ response = NoResponse

InitInfer ==
    /\ values \in InferInputs
    /\ columnType = "pending"
    /\ IdleIngest /\ IdleChart /\ IdleStats /\ IdleServer /\ IdleClient

InitIngest ==
    /\ jsonData \in SheetInputs
    /\ processed = Pending
    /\ IdleInfer /\ IdleChart /\ IdleStats /\ IdleServer /\ IdleClient

InitChart ==
    /\ data \in ChartInputs
    /\ xAxis = [column |-> ColC, label |-> Undef]
    /\ yAxis \in {[column |-> ColV, label |-> l] : l \in {Undef, Str(<<"Y">>)}}
    /\ chartType \in ChartTypes
    /\ chart = NoChart
    /\ chartAgain = [NoChart EXCEPT !.status = "idle"]
    /\ IdleInfer /\ IdleIngest /\ IdleStats /\ IdleServer /\ IdleClient

\* two calls on the same arguments, in either order
InitChartTwice ==
    /\ data \in {d \in ChartInputs : d.defined => Len(d.rows) <= MaxShortRows}
    /\ xAxis = [column |-> ColC, label |-> Undef]
    /\ yAxis \in {[column |-> ColV, label |-> l] : l \in {Undef, Str(<<"Y">>)}}
    /\ chartType \in ChartTypes
    /\ chart = NoChart
    /\ chartAgain = NoChart
    /\ IdleInfer /\ IdleIngest /\ IdleStats /\ IdleServer /\ IdleClient

InitStats ==
    /\ statsData \in StatsInputs
    /\ statistics = NoStatistics
    /\ IdleInfer /\ IdleIngest /\ IdleChart /\ IdleServer /\ IdleClient

InitServer ==
    /\ users = InitialUsers
    /\ uploads = {}
    /\ analyses = {}
    /\ nextId = 1
    /\ request = NoRequest
    /\ response = NoResponse
    /\ IdleInfer /\ IdleIngest /\ IdleChart /\ IdleStats /\ IdleClient

\* the store after u1 uploaded one sheet
InitAnalysis ==
    /\ \E sheet \in LoadedSheets :
         uploads = {NewUpload(1, "u1", processExcelFile(sheet))}
    /\ users = Push(InitialUsers, "u1", "uploads", 1)
    /\ analyses = {}
    /\ nextId = 2
    /\ request = NoRequest
    /\ response = NoResponse
    /\ IdleInfer /\ IdleIngest /\ IdleChart /\ IdleStats /\ IdleClient

\* the store is created over what an earlier visit left in localStorage
InitRedux ==
    /\ \E token \in {Null} \cup Tokens :
         /\ localStorage = [EmptyStorage EXCEPT !.token = token]
         /\ authState = initialState(localStorage)
    /\ context = NoContext
    /\ IdleInfer /\ IdleIngest /\ IdleChart /\ IdleStats /\ IdleServer

\* the first visit: nothing in localStorage
InitContext ==
    /\ localStorage = EmptyStorage
    /\ context = AfterUserEffect(Mounted(localStorage), localStorage)
    /\ authState = NoAuthState
    /\ IdleInfer /\ IdleIngest /\ IdleChart /\ IdleStats /\ IdleServer

Init == InitContext \/ InitRedux \/ InitAnalysis \/ InitInfer \/ InitIngest \/ InitChart \/ InitChartTwice \/ InitStats \/ InitServer

Next ==
    \/ AnalyzeColumnType \/ ProcessExcelFile \/ ProcessChartData \/ CalculateStatistics
    \/ ProcessChartDataAgain
    \/ UploadPost \/ UploadList \/ UploadGet \/ UploadDelete
    \/ AnalysisPost \/ AnalysisList \/ AnalysisGet \/ AnalysisDelete
    \/ AnalysisPostAllTypes \/ UserDelete
    \/ LoginStart \/ LoginAnswered \/ LoginThrew \/ Logout
    \/ ContextNext

SpecInfer == InitInfer /\ [][AnalyzeColumnType]_vars
SpecIngest == InitIngest /\ [][ProcessExcelFile]_vars
SpecChart == InitChart /\ [][ProcessChartData]_vars
SpecChartTwice == InitChartTwice /\ [][ProcessChartData \/ ProcessChartDataAgain]_vars
SpecStats == InitStats /\ [][CalculateStatistics]_vars
SpecServer == InitServer /\ [][HandleRequest]_vars
SpecRedux == InitRedux /\ [][LoginStart \/ LoginAnswered \/ LoginThrew \/ Logout]_vars
SpecContext == InitContext /\ [][ContextNext]_vars
SpecAnalysis == InitAnalysis /\ [][AnalysisPostAllTypes]_vars
SpecTransforms == (InitChart \/ InitStats) /\ [][ProcessChartData \/ CalculateStatistics]_vars
Spec == Init /\ [][Next]_vars

----------------------------------------------------------------------------
(* Properties of the Column Type Inferencer *)

\* positions of the argument the inferencer examines
Examined == 1..Min(Len(values), SampleSize)
NumberEvidence == Cardinality({i \in Examined : Evidence(values[i]) = "number"})
DateEvidence == Cardinality({i \in Examined : Evidence(values[i]) = "date"})
InferDone == columnType \in {"number", "date", "string"}

\* C1: with N the number evidence and D the date evidence among the examined
\* values, the returned type is number iff N > D and N > 0, otherwise date iff
\* D > 0, otherwise string; an empty argument gives string and a tie N = D > 0
\* gives date.
C1_TypeFollowsEvidence ==
    columnType # "pending" =>
        /\ InferDone
        /\ (columnType = "number") <=> (NumberEvidence > DateEvidence /\ NumberEvidence > 0)
        /\ (columnType = "date") <=>
               (~(NumberEvidence > DateEvidence /\ NumberEvidence > 0) /\ DateEvidence > 0)
        /\ (columnType = "string") <=>
               (~(NumberEvidence > DateEvidence /\ NumberEvidence > 0) /\ DateEvidence = 0)
        /\ (values = <<>> => columnType = "string")
        /\ (NumberEvidence = DateEvidence /\ DateEvidence > 0 => columnType = "date")

\* a tie of nonzero evidence counts was classified
C1_Witness ==
    /\ InferDone
    /\ NumberEvidence = DateEvidence
    /\ DateEvidence > 0
    /\ columnType = "date"

----------------------------------------------------------------------------
(* Properties of the Tabular Ingestor *)

IngestDone == processed.status \in {"ok", "error"}
Headers == jsonData[1].cells
DataRows == [j \in 1..(Len(jsonData) - 1) |-> jsonData[j + 1].cells]

\* the cell a Row is to hold for header position i (1-based) of data row cells
ZippedCell(cells, i) ==
    IF i <= Len(cells) /\ cells[i] # Undef THEN cells[i] ELSE Null

\* C2: every Row has exactly the header's names as its keys and maps the header
\* at each position i to the data row's cell i, or to null when that cell is
\* missing or undefined; cells past the header's length are in no Row.
C2_RowsZipHeaders ==
    processed.status = "ok" =>
        /\ Len(processed.data) = Len(DataRows)
        /\ \A j \in 1..Len(DataRows) :
              /\ OwnKeys(processed.data[j]) = {ToStringJS(Headers[i]) : i \in 1..Len(Headers)}
              /\ \A i \in 1..Len(Headers) :
                    ObjGet(processed.data[j], ToStringJS(Headers[i])) = ZippedCell(DataRows[j], i)

\* C3: ingestion fails with the empty-sheet error when the sheet has no rows and
\* with the no-headers error when the header row is empty or absent, and a
\* failure carries no rows, columns or row count.
C3_IngestionFailures ==
    processed.status # "pending" =>
        /\ IngestDone
        /\ Len(jsonData) = 0 =>
               /\ processed.status = "error"
               /\ processed.message = "Failed to process Excel file: No data found in the Excel file"
        /\ (Len(jsonData) > 0 /\ (~jsonData[1].defined \/ Len(jsonData[1].cells) = 0)) =>
               /\ processed.status = "error"
               /\ processed.message = "Failed to process Excel file: No headers found in the Excel file"
        /\ processed.status = "error" =>
               processed.data = <<>> /\ processed.columns = <<>> /\ processed.rowCount = 0

\* a sheet with data rows under an absent header row was rejected
C3_Witness ==
    /\ processed.status = "error"
    /\ Len(jsonData) > 1
    /\ ~jsonData[1].defined
    /\ processed.message = "Failed to process Excel file: No headers found in the Excel file"

----------------------------------------------------------------------------
(* Properties of the Chart Series Builder *)

ChartDone == chart.status \in {"ok", "error"}
HasRows == data.defined /\ Len(data.rows) > 0

\* the x and y cells of input row i
XCell(i) == ObjGet(data.rows[i], xAxis.column)
YCell(i) == ObjGet(data.rows[i], yAxis.column)

\* a cell read as a number: its parsed value, 0 when it does not parse
NumberOrZero(cell) == IF IsNaNv(ParseFloat(cell)) THEN Num(0) ELSE ParseFloat(cell)

\* C4: the builder fails with the no-data error, and returns no series, exactly
\* when the rows are empty or absent, whatever the chart type.
C4_EmptyDatasetFails ==
    chart.status # "pending" =>
        /\ ChartDone
        /\ (chart.status = "error") <=> ~HasRows
        /\ chart.status = "error" =>
               /\ chart.message = "No data available for chart generation"
               /\ chart.labels = <<>>
               /\ chart.dataset = <<>>

\* absent rows were refused for a pie chart
C4_Witness ==
    /\ chart.status = "error"
    /\ chartType = "pie"
    /\ ~data.defined

\* the text forms of the x values of the rows
XKeys == {ToStringJS(XCell(i)) : i \in 1..Len(data.rows)}

RECURSIVE SumYOf(_, _)
\* the sum of the y values, read as numbers, of the rows from i on whose x value
\* has the text form key
SumYOf(key, i) ==
    IF i > Len(data.rows) THEN 0
    ELSE (IF ToStringJS(XCell(i)) = key THEN NumberOrZero(YCell(i)).n ELSE 0)
           + SumYOf(key, i + 1)

\* C5: a pie chart has one label and one value per distinct x value (by text
\* form), the value being the sum of the y values, read as numbers with 0 for
\* what does not parse, of the rows with that x value.
C5_PieSumsPerLabel ==
    (chart.status = "ok" /\ chartType = "pie") =>
        /\ Len(chart.labels) = Cardinality(XKeys)
        /\ Len(chart.dataset.data) = Len(chart.labels)
        /\ {chart.labels[k].s : k \in 1..Len(chart.labels)} = XKeys
        /\ \A k \in 1..Len(chart.labels) :
              chart.dataset.data[k] = Num(SumYOf(chart.labels[k].s, 1))

\* the first row whose x value has the text form key
FirstSeen(key) ==
    CHOOSE i \in 1..Len(data.rows) :
        /\ ToStringJS(XCell(i)) = key
        /\ \A j \in 1..(i - 1) : ToStringJS(XCell(j)) # key

\* C6: the labels of a pie chart are in the order in which their x values first
\* occur in the rows, integer-like x values included.
C6_PieFirstSeenOrder ==
    (chart.status = "ok" /\ chartType = "pie") =>
        \A a, b \in 1..Len(chart.labels) :
            a < b => FirstSeen(chart.labels[a].s) < FirstSeen(chart.labels[b].s)

\* C7: a bar, line or area series has min(50, number of rows) entries, entry i
\* holding the raw x value of row i as label and the y value of row i read as a
\* number, 0 when it does not parse; later rows have no part in it.
C7_SeriesOfFirstFiftyRows ==
    (chart.status = "ok" /\ chartType \in {"bar", "line", "area"}) =>
        /\ Len(chart.labels) = Min(MaxChartRows, Len(data.rows))
        /\ Len(chart.dataset.data) = Min(MaxChartRows, Len(data.rows))
        /\ \A i \in 1..Min(MaxChartRows, Len(data.rows)) :
              /\ chart.labels[i] = XCell(i)
              /\ chart.dataset.data[i] = NumberOrZero(YCell(i))

\* a bar series was built from more rows than the cap
C7_Witness ==
    /\ chart.status = "ok"
    /\ chartType = "bar"
    /\ Len(data.rows) > MaxChartRows
    /\ Len(chart.labels) = MaxChartRows

\* C8: a scatter chart has one point per row, in row order, without grouping or
\* truncation: point i is (x of row i, y of row i), each read as a number, 0
\* when it does not parse.
C8_ScatterPointPerRow ==
    (chart.status = "ok" /\ chartType = "scatter") =>
        /\ Len(chart.dataset.data) = Len(data.rows)
        /\ \A i \in 1..Len(data.rows) :
              chart.dataset.data[i] = [x |-> NumberOrZero(XCell(i)), y |-> NumberOrZero(YCell(i))]

\* a scatter chart of more rows than the series cap, with a repeated x value
C8_Witness ==
    /\ chart.status = "ok"
    /\ chartType = "scatter"
    /\ Len(data.rows) > MaxChartRows
    /\ Len(chart.dataset.data) = Len(data.rows)
    /\ XCell(1) = XCell(2)

\* the y cell of row i does not parse as a number
YUnparsed(i) == IsNaNv(ParseFloat(YCell(i)))

\* the rows with every y value that does not parse replaced by the number 0
RowsWithZeroes ==
    [i \in 1..Len(data.rows) |->
        IF YUnparsed(i) THEN ObjSet(data.rows[i], yAxis.column, Num(0)) ELSE data.rows[i]]

\* C9: for non-empty rows the builder returns a series whatever the y values
\* are, and a y value that does not parse (text, null, missing) counts as 0: the
\* series is the one built from the rows with 0 in its place, and its entry in
\* a bar, line, area or scatter series is 0.
C9_UnparsedYCountsAsZero ==
    (chart.status # "pending" /\ HasRows) =>
        /\ chart.status = "ok"
        /\ chart = processChartData(Rows(RowsWithZeroes), xAxis, yAxis, chartType)
        /\ \A i \in 1..Len(chart.dataset.data) :
              (chartType # "pie" /\ YUnparsed(i)) =>
                  IF chartType = "scatter"
                  THEN chart.dataset.data[i].y = Num(0)
                  ELSE chart.dataset.data[i] = Num(0)

\* a pie chart and a scatter chart were built from rows with a text y value, a
\* null y value or no y value at all
C9_Witness ==
    /\ chart.status = "ok"
    /\ chartType \in {"pie", "scatter"}
    /\ \E i \in 1..Len(data.rows) : YCell(i).t = "string" /\ YUnparsed(i)
    /\ \E i \in 1..Len(data.rows) : YCell(i).t \in {"null", "undefined"}

----------------------------------------------------------------------------
(* Properties of the Descriptive Statistics Calculator *)

StatsDone == statistics.status \in {"null", "stats", "error"}

\* the entries of the argument that are numbers by type, NaN excluded
TypedNumbers == SelectSeq(statsData.items, LAMBDA v : v.t = "number")

\* C10: the calculator uses only the entries that are numbers by type and not
\* NaN, numeric-looking text excluded: it returns null iff there is none, and
\* otherwise the statistics of exactly those entries, without an error.
C10_OnlyTypedNumbersCount ==
    statistics.status # "pending" =>
        /\ statistics.status \in {"null", "stats"}
        /\ (statistics.status = "null") <=> (TypedNumbers = <<>>)
        /\ statistics = calculateStatistics(Given(TypedNumbers))

\* statistics were returned for an argument holding numeric text and NaN
C10_Witness ==
    /\ statistics.status = "stats"
    /\ \E i \in 1..Len(statsData.items) : statsData.items[i].t = "string"
    /\ \E i \in 1..Len(statsData.items) : statsData.items[i].t = "nan"

\* occurrences of the value at position i among all the numbers used
CountOf(i) == FrequencyAt(TypedNumbers, Len(TypedNumbers), TypedNumbers[i])

\* the highest number of occurrences of one value
MaxCount == CHOOSE c \in 1..Len(TypedNumbers) :
    /\ \E i \in 1..Len(TypedNumbers) : CountOf(i) = c
    /\ \A i \in 1..Len(TypedNumbers) : CountOf(i) <= c

\* the position, in input order, at which the value at position i has occurred
\* MaxCount times
ReachedAt(i) ==
    CHOOSE p \in 1..Len(TypedNumbers) :
        /\ TypedNumbers[p] = TypedNumbers[i]
        /\ FrequencyAt(TypedNumbers, p, TypedNumbers[i]) = MaxCount

\* C11: the mode is the value with the highest number of occurrences and, among
\* equally frequent values, the one that reaches that number first when the
\* input is scanned in input order (first seen wins, not the smallest).
C11_ModeFirstSeenInInputOrder ==
    statistics.status = "stats" =>
        \E i \in 1..Len(TypedNumbers) :
            /\ statistics.mode = 100 * TypedNumbers[i].n
            /\ CountOf(i) = MaxCount
            /\ \A j \in 1..Len(TypedNumbers) :
                  CountOf(j) = MaxCount => ReachedAt(i) <= ReachedAt(j)

\* the numbers used, as integers
NumbersUsed == {TypedNumbers[i].n : i \in 1..Len(TypedNumbers)}

\* the k-th smallest of the numbers used, whatever their order in the input
KthSmallest(k) ==
    CHOOSE v \in NumbersUsed :
        /\ Cardinality({j \in 1..Len(TypedNumbers) : TypedNumbers[j].n < v}) < k
        /\ k <= Cardinality({j \in 1..Len(TypedNumbers) : TypedNumbers[j].n <= v})

\* the argument holds exactly the entries of example, in some order
IsArrangementOf(example) ==
    /\ Len(statsData.items) = Len(example)
    /\ \A v \in {example[i] : i \in 1..Len(example)} :
          Cardinality({i \in 1..Len(example) : statsData.items[i] = v})
              = Cardinality({i \in 1..Len(example) : example[i] = v})

\* C12: the median is that of the numbers in ascending order, the central one
\* for an odd count and the average of the two central ones for an even count,
\* whatever the input order; [1,2,3,4] in any order gives 2.5 and [1,3,5] in
\* any order gives 3.
C12_MedianOfAscendingOrder ==
    statistics.status = "stats" =>
        LET count == Len(TypedNumbers)
        IN  /\ count % 2 = 1 => statistics.median = 100 * KthSmallest((count + 1) \div 2)
            /\ count % 2 = 0 =>
                   statistics.median
                       = 50 * (KthSmallest(count \div 2) + KthSmallest(count \div 2 + 1))
            /\ IsArrangementOf(<<Num(1), Num(2), Num(3), Num(4)>>) => statistics.median = 250
            /\ IsArrangementOf(<<Num(1), Num(3), Num(5)>>) => statistics.median = 300

\* the median of an even number of values given out of order was the average
\* of two different central values
C12_Witness ==
    /\ statistics.status = "stats"
    /\ Len(TypedNumbers) = 4
    /\ TypedNumbers[1].n > TypedNumbers[2].n
    /\ KthSmallest(2) # KthSmallest(3)
    /\ statistics.median = 50 * (KthSmallest(2) + KthSmallest(3))

\* sum / count rounded to two decimals, halves away from zero, in hundredths
RoundedQuotient(sum, count) ==
    LET q == (200 * Abs(sum) + count) \div (2 * count)
    IN  IF sum < 0 THEN -q ELSE q

\* C13: the mean is the sum of the numbers used divided by their count, rounded
\* to 2 decimal places (halves away from zero).
C13_MeanIsRoundedQuotient ==
    statistics.status = "stats" =>
        statistics.mean = RoundedQuotient(SumOf(TypedNumbers), Len(TypedNumbers))

----------------------------------------------------------------------------
(* Properties of the Column Descriptors *)

\* C14: the names of the Column Descriptors of one accepted sheet are pairwise
\* distinct, and the descriptor at each position carries the header cell at
\* that position as it stands.
C14_ColumnNamesDistinctVerbatim ==
    processed.status = "ok" =>
        /\ Len(processed.columns) = Len(Headers)
        /\ \A i \in 1..Len(Headers) : processed.columns[i].name = Headers[i]
        /\ \A i, k \in 1..Len(processed.columns) :
              i # k => processed.columns[i].name # processed.columns[k].name

\* the non-null values of the sheet column at header position i (1-based), in
\* data-row order
ColumnCells(i) ==
    SelectSeq([j \in 1..Len(DataRows) |-> ZippedCell(DataRows[j], i)],
              LAMBDA val : val # Null)

\* C15: the descriptor of the header at position i has as sampleValues the
\* first 5 non-null values of the sheet column at position i, in data-row
\* order, and as type the Inferencer's result on all the non-null values of
\* that column.
C15_SamplesAndTypeOfColumn ==
    processed.status = "ok" =>
        \A i \in 1..Len(Headers) :
            /\ processed.columns[i].sampleValues
                   = SubSeq(ColumnCells(i), 1, Min(SampleValuesSize, Len(ColumnCells(i))))
            /\ processed.columns[i].type = analyzeColumnType(ColumnCells(i))

\* C16: ingestion keeps order and counts: the descriptor at position i is named
\* after the header at position i, the Row at position j holds, under each of
\* its keys, a cell of the data row at position j from a position whose header
\* has that name (null for a missing cell), there are as many Rows as data
\* rows, and rowCount is that number, the header row not counted.
C16_OrderAndCountsKept ==
    processed.status = "ok" =>
        /\ Len(processed.columns) = Len(Headers)
        /\ \A i \in 1..Len(Headers) : processed.columns[i].name = Headers[i]
        /\ Len(processed.data) = Len(DataRows)
        /\ processed.rowCount = Len(jsonData) - 1
        /\ processed.rowCount = Len(processed.data)
        /\ \A j \in 1..Len(DataRows) :
              /\ OwnKeys(processed.data[j]) = {ToStringJS(Headers[i]) : i \in 1..Len(Headers)}
              /\ \A key \in OwnKeys(processed.data[j]) :
                    \E i \in 1..Len(Headers) :
                        /\ ToStringJS(Headers[i]) = key
                        /\ ObjGet(processed.data[j], key) = ZippedCell(DataRows[j], i)

\* a sheet of two differently named columns and several data rows, the first
\* two of them different, was ingested
C16_Witness ==
    /\ processed.status = "ok"
    /\ Len(Headers) = 2
    /\ Headers[1] # Headers[2]
    /\ Len(DataRows) > 2
    /\ processed.data[1] # processed.data[2]
    /\ processed.rowCount = Len(DataRows)
    /\ processed.columns[2].name = Headers[2]

----------------------------------------------------------------------------
(* The Inferencer's sample *)

\* what may follow the first entries of an argument
Tails == SeqsOf(InferCells, 0, 2)

\* C17: only the first 10 entries of the argument count: every sequence that
\* has the same first 10 entries as the argument, whatever follows them, is
\* given the type the argument was given.
C17_OnlyFirstTenExamined ==
    (InferDone /\ Len(values) >= SampleSize) =>
        \A tail \in Tails :
            analyzeColumnType(SubSeq(values, 1, SampleSize) \o tail) = columnType

\* an argument of more than 10 entries was classified, and counting the
\* evidence of all its entries would have given another type
C17_Witness ==
    /\ InferDone
    /\ Len(values) > SampleSize
    /\ Decide(CountEvidence(values, "number"), CountEvidence(values, "date")) # columnType

----------------------------------------------------------------------------
(* Properties of the server store *)

\* C18: a stored Upload keeps its column descriptors, inferred types included,
\* its rows and its rowCount through every later request (upload, list, get,
\* analysis creation, analysis deletion) for as long as it is stored.
C18_StoredUploadNeverChanges ==
    [][\A u \in uploads : \A v \in uploads' :
           v.id = u.id =>
               /\ v.columns = u.columns
               /\ v.data = u.data
               /\ v.rowCount = u.rowCount]_vars

\* the first upload, of two rows, is still stored after an analysis of it was
\* created and deleted again
C18_Witness ==
    /\ \E u \in uploads : u.id = 1 /\ u.rowCount = 2 /\ Len(u.columns) = 2
    /\ nextId = 3
    /\ analyses = {}
    /\ request.kind = "deleteAnalysis"
    /\ response.status = 200

\* C19: an upload request or analysis-creation request that is answered with a
\* failure leaves no new Upload or Analysis behind and changes no stored
\* Upload or Analysis.
C19_FailedRequestStoresNothing ==
    [][(request'.kind \in {"postUpload", "postAnalysis"} /\ response'.status >= 400) =>
           (uploads' = uploads /\ analyses' = analyses)]_vars

----------------------------------------------------------------------------
(* Properties of the two transformations as functions *)

CountedAlone(i) == CountValue(Counters(0, 0), values[i])
IsDateText(v) == v.t = "string" /\ MatchesDatePattern(v.s) /\ DateIsValid(v.s)

\* C24: an examined value adds to at most one counter: a typed number that
\* is not NaN adds one to the number counter; a text matching the date
\* pattern that is a valid date adds one to the date counter and nothing to
\* the number counter; any other text adds one to the number counter iff
\* parseFloat reads a number from it; null, undefined and the empty text add
\* to neither.  So the two counters together never exceed the number of
\* examined values, which is at most 10.
C24_EachValueCountedOnce ==
    InferDone =>
        /\ \A i \in Examined :
             LET v == values[i]
                 c == CountedAlone(i)
             IN  /\ c.numberCount + c.dateCount <= 1
                 /\ (v.t = "number" /\ ~IsNaNv(v)) => c = Counters(1, 0)
                 /\ IsDateText(v) => c = Counters(0, 1)
                 /\ (v.t = "string" /\ v.s # <<>> /\ ~IsDateText(v)) =>
                        /\ c.dateCount = 0
                        /\ (c.numberCount = 1) <=> ~IsNaNv(ParseFloat(v))
                 /\ (v.t \in {"null", "undefined"} \/ v = Str(<<>>)) => c = Counters(0, 0)
        /\ LET counts == LoopCounts(Counters(0, 0), Slice(values, 0, SampleSize))
           IN  /\ counts.numberCount + counts.dateCount <= Cardinality(Examined)
               /\ counts.numberCount = NumberEvidence
               /\ counts.dateCount = DateEvidence
        /\ Cardinality(Examined) <= 10

\* a column of more than ten values was typed whose examined values hold a
\* date text that parseFloat also reads a number from, and a typed number
C24_Witness ==
    /\ InferDone
    /\ Len(values) > SampleSize
    /\ \E i \in Examined : IsDateText(values[i]) /\ ~IsNaNv(ParseFloat(values[i]))
    /\ \E i \in Examined : values[i] = Num(3)

----------------------------------------------------------------------------
(* Properties of the store as a whole *)

\* C25: every stored Analysis references an Upload that is still stored.
C25_AnalysisUploadExists ==
    \A a \in analyses : \E u \in uploads : u.id = a.upload

\* the ids in a list, as a set
IdsIn(list) == {list[i] : i \in 1..Len(list)}

\* C26: after every completed request each user's uploads list holds exactly
\* the ids of the stored Uploads of that user, and the user's analyses list
\* exactly the ids of the stored Analyses of that user.
C26_ListsMatchOwnedRecords ==
    \A user \in DOMAIN users :
        /\ IdsIn(users[user].uploads) = {u.id : u \in {r \in uploads : r.user = user}}
        /\ IdsIn(users[user].analyses) = {a.id : a \in {r \in analyses : r.user = user}}

\* the names of the Column Descriptors of an Upload
ColumnNames(upload) == {upload.columns[i].name : i \in 1..Len(upload.columns)}

\* what POST /api/analysis checks of a request, stated on the request
RequestIsValid(req, stored) ==
    /\ req.complete
    /\ req.selection.chartType \in ChartTypes
    /\ \E u \in stored :
         /\ u.id = req.id
         /\ u.user = req.caller
         /\ Str(req.selection.xColumn) \in ColumnNames(u)
         /\ Str(req.selection.yColumn) \in ColumnNames(u)

\* C27: an Analysis is stored only by a request that passed the checks: its
\* chartType is one of bar, line, pie, scatter, area, its xAxis.column and
\* yAxis.column name Column Descriptors of the Upload it references, and that
\* Upload is owned by the creating user.  A request failing a check is
\* answered 400 or 404 (401 when the caller is unknown), which precede the
\* building of chart data, and stores nothing.
C27_StoredAnalysisWasValidated ==
    [][ /\ \A a \in analyses' \ analyses :
             /\ request'.kind = "postAnalysis"
             /\ a.user = request'.caller
             /\ a.chartType \in ChartTypes
             /\ \E u \in uploads :
                  /\ u.id = a.upload
                  /\ u.user = a.user
                  /\ Str(a.xAxis.column) \in ColumnNames(u)
                  /\ Str(a.yAxis.column) \in ColumnNames(u)
        /\ (request'.kind = "postAnalysis" /\ ~RequestIsValid(request', uploads)) =>
             /\ response'.status \in {400, 401, 404}
             /\ analyses' = analyses
             /\ users' = users
             /\ uploads' = uploads
      ]_vars

\* with an Analysis stored, the caller asked for a radar chart of an Upload
\* of their own and was answered 400
C27_Witness ==
    /\ analyses # {}
    /\ \A a \in analyses : a.chartType \in {"bar", "pie"}
    /\ request.kind = "postAnalysis"
    /\ request.selection.chartType = "radar"
    /\ \E u \in uploads : u.id = request.id /\ u.user = request.caller
    /\ response.status = 400

\* the rows whose y value parseFloat reads a number from
ReadableRows(rows, column) ==
    {j \in 1..Len(rows) : ~IsNaNv(ParseFloat(ObjGet(rows[j], column)))}

\* the numbers read from the y values of those rows, in row order
ReadableYValues(rows, column) ==
    LET readable == ReadableRows(rows, column)
        kth(k) == CHOOSE j \in readable : Cardinality({i \in readable : i <= j}) = k
    IN  [k \in 1..Cardinality(readable) |-> ParseFloat(ObjGet(rows[kth(k)], column))]

\* C28: the statistics stored with an Analysis are those of the y values of
\* all rows of its Upload that parse as numbers, numeric text included,
\* whatever the chart type and however many rows the series shows; they are
\* null iff no row has a y value that parses as a number.
C28_StatisticsOverAllReadableRows ==
    \A a \in analyses : \A u \in uploads :
        u.id = a.upload =>
            LET ys == ReadableYValues(u.data, a.yAxis.column)
            IN  /\ a.statistics = calculateStatistics(Given(ys))
                /\ (a.statistics.status = "null") <=> (ys = <<>>)

\* a bar chart of 50 of the 52 rows is stored whose statistics have the
\* range of all 52 rows, two of them numeric text
C28_Witness ==
    \E a \in analyses : \E u \in uploads :
        /\ u.id = a.upload
        /\ a.chartType = "bar"
        /\ Len(a.chartData.labels) = MaxChartRows
        /\ Len(u.data) > MaxChartRows
        /\ u.data[Len(u.data)][2].val = Str(<<"7">>)
        /\ a.statistics.status = "stats"
        /\ a.statistics.range = 600

\* C23: after a DELETE /api/admin/users/U answered 200, no User record of
\* U, no Upload of U and no Analysis of U is stored, and the records of the
\* other users are as they were before the request.
C23_DeletedUserLeavesNothing ==
    [][ (request'.kind = "deleteUser" /\ response'.status = 200) =>
            LET U == request'.target
            IN  /\ U \notin DOMAIN users'
                /\ \A r \in uploads' \cup analyses' : r.user # U
                /\ \A u \in DOMAIN users \ {U} :
                     u \in DOMAIN users' /\ users'[u] = users[u]
                /\ {r \in uploads' : r.user # U} = {r \in uploads : r.user # U}
                /\ {r \in analyses' : r.user # U} = {r \in analyses : r.user # U}
      ]_vars

\* u2 was deleted after two records had been stored; the Upload of u1 and
\* its place in u1's list remain
C23_Witness ==
    /\ request.kind = "deleteUser"
    /\ request.target = "u2"
    /\ response.status = 200
    /\ "u2" \notin DOMAIN users
    /\ nextId = 3
    /\ \E r \in uploads : r.id = 1 /\ r.user = "u1"
    /\ users["u1"].uploads = <<1>>
    /\ Cardinality(uploads \cup analyses) = 1

----------------------------------------------------------------------------
(* Properties of the clients *)

\* C29: in the Redux client, after any sequence of loginStart, loginSuccess,
\* loginFailure and logout, isAuthenticated is true iff the token of the
\* state is not null, the token of the state is the token held in
\* localStorage, and user is null whenever isAuthenticated is false.
C29_AuthStateAgreesWithToken ==
    authState.created =>
        /\ authState.isAuthenticated <=> (authState.token # Null)
        /\ authState.token = GetItem(localStorage, "token")
        /\ ~authState.isAuthenticated => authState.user = Null

\* a login was answered with a token while a login was not marked as loading
C29_Witness ==
    /\ authState.created
    /\ authState.isAuthenticated
    /\ authState.user = UserObject("u2")
    /\ authState.token = Str(<<"a", "b">>)
    /\ ~authState.isLoading

\* C30: in the context client, the uploads and analyses shown to a logged-in
\* user are items added while that user was logged in.
C30_ListsHoldOnlyOwnItems ==
    (context.mounted /\ Truthy(context.user)) =>
        /\ \A i \in 1..Len(context.uploads) :
             context.uploads[i].addedBy = context.user.s[1]
        /\ \A i \in 1..Len(context.analyses) :
             context.analyses[i].addedBy = context.user.s[1]

====
